---- MODULE Spec2Model ----
(***************************************************************************)
(* A model of the result-resolution code of MusicSearch (src/temp.py, the  *)
(* latest of the three scripts; src/MusicSearch_ver2.py holds the same     *)
(* functions without the scraping fallback).                               *)
(*                                                                         *)
(* Conventions.  A Python text value that the code only tests for          *)
(* truthiness is a sequence of words or characters; None and "" are both   *)
(* the empty sequence <<>>.  Identifiers are strings, "None" standing for  *)
(* None; urls of albums are strings, "" standing for None or "".  Every    *)
(* answer of the upstream services (the Genius client, the web server) is  *)
(* a nondeterministic choice made when the code issues the request.        *)
(*                                                                         *)
(* Specifications.  Spec: search_artist_and_list_albums; LiveSpec: the     *)
(* same under fairness; SpecSearch: search_by_lyrics and search_by_title;  *)
(* SpecSongs: the album-to-songs cascade; SpecArtist: both parts of the    *)
(* artist flow; SpecHandler: the album search and the handler's branch on  *)
(* its result; SpecMain: main, the handlers' dialogue, choose_from_list    *)
(* and post_lyrics_actions; SpecTwice: a call repeated against an upstream *)
(* that answers identically.                                               *)
(***************************************************************************)
EXTENDS Integers, Sequences, FiniteSets, TLC

VARIABLES
    pc,               \* control point of the function being run
    has_artist_albums,\* callable(getattr(genius_client, "artist_albums", None))
    artist_name,      \* argument of search_artist_and_list_albums
    max_albums_fetch, \* argument of search_artist_and_list_albums (the limit)
    artist_meta,      \* what search_artist returned
    albums,           \* the list `albums` (of fetch_artist_albums, then of the caller)
    page,             \* the local `page` of fetch_artist_albums
    variant,          \* index into candidate_urls of the scrape
    found_albums,     \* the list `found_albums` of the scrape
    seen_urls,        \* the set `seen_urls` of the scrape
    outcome,          \* how the function ended: "none", "returned" or "raised"
    api_ret,          \* history: what fetch_artist_albums gave its caller
    scrape_ret,       \* history: what scrape_artist_albums_from_url gave its caller
    log,              \* history: the resolvers invoked, in order
    page_log,         \* history: the page numbers requested, in order
    last_page,        \* the local `res` of fetch_artist_albums: the answer to the
                      \* page request of the latest step (dropped when the loop
                      \* sleeps and when the scrape runs)
    artist_filter,    \* argument of search_by_lyrics
    max_results,      \* argument of search_by_lyrics
    title_arg,        \* argument `title` of search_by_title
    artist_arg,       \* argument `artist` of search_by_title
    resp,             \* what search_lyrics / search_song answered
    results,          \* the list search_by_lyrics / search_by_title returned
    calls,            \* history: number of search_lyrics / search_song calls
    error,            \* the exception raised to the caller, "" if none
    has_album,        \* callable(getattr(genius_client, "album", None))
    has_album_songs,  \* callable(getattr(genius_client, "album_songs", None))
    has_artist_songs, \* callable(getattr(genius_client, "artist_songs", None))
    album,            \* the album chosen in handle_artist_search
    songs,            \* the list `songs` of handle_artist_search
    all_songs,        \* the list `songs` of fetch_artist_songs
    song_page,        \* the local `page` of fetch_artist_songs
    song_page_log,    \* history: the page numbers fetch_artist_songs requested
    song_last_page,   \* history: the answer to its latest page request
    song_limit,       \* the argument `limit` of fetch_artist_songs
    stage_ret,        \* history: what each stage of the cascade gave
    endpoint_log,     \* history: the endpoints the song resolvers called (pages apart)
    song_log,         \* history: the stages of the cascade attempted, in order
    max_choice,       \* argument `max_choice` of choose_from_list
    caller,           \* the call of choose_from_list being served
    sel,              \* what choose_from_list returned: <<>> for None, <<i>> for i
    chosen,           \* a candidate has been selected (`chosen` is bound)
    answer,           \* the answer to "Download audio from YouTube?", lower-cased
    checked,          \* what ensure_yt_dlp_installed returned: "none" before the call
    downloads,        \* history: the formats the downloader was invoked with since
                      \* the latest selection
    report,           \* the failure printed last, "" if none
    menu_choice,      \* what main_menu returned last
    run,              \* 0: a single call; 1, 2: first and second call against an
                      \* upstream that answers every request identically
    upstream,         \* the answers the upstream gave during the first call
    first             \* what the first call returned

\* the state of search_artist_and_list_albums and of the resolvers it calls
albVars == <<has_artist_albums, artist_name, max_albums_fetch, artist_meta,
             albums, page, variant, found_albums, seen_urls, api_ret,
             scrape_ret, log, page_log, last_page>>

\* the state of search_by_lyrics and search_by_title
lyrVars == <<artist_filter, max_results, title_arg, artist_arg, resp, results,
             calls, error>>

\* the state of the album-to-songs cascade of handle_artist_search
songVars == <<has_album, has_album_songs, has_artist_songs, album, songs,
              all_songs, song_page, song_page_log, song_last_page, song_limit,
              stage_ret, endpoint_log, song_log>>

\* the state of main, of the handlers' dialogue and of post_lyrics_actions
uiVars == <<max_choice, caller, sel, chosen, answer, checked, downloads, report,
            menu_choice>>

\* the state of a repeated call
runVars == <<run, upstream, first>>

vars == <<pc, outcome, albVars, lyrVars, songVars, uiVars, runVars>>

(***************************************************************************)
(* Bounds of the model.                                                    *)
(***************************************************************************)
\* largest limit (max_albums_fetch, max_albums) tried
MaxLimit == 3
\* page size; the source asks for per_page = 50, the model scales it down
per_page == 2
\* pages requested before the model stops following a run
MaxPage == 3
\* matched anchors in one fetched document
MaxAnchors == 2
\* hits in one answer of search_lyrics
MaxHits == 3
\* tracks in one answer of album / album_songs
MaxTracks == 2
\* largest max_results tried
MaxResults == 3

\* len(candidate_urls): the base url, base + "/albums", base + "/discography"
NumVariants == 3

\* the default max_albums of scrape_artist_albums_from_url
DefaultMaxAlbums == 200

SeqUpTo(S, n) == UNION {[1..k -> S] : k \in 0..n}

Range(s) == {s[i] : i \in 1..Len(s)}

NoRet == [state |-> "none", val |-> <<>>]

\* no page was requested yet
NoPage == [kind |-> "none", items |-> <<>>]

(***************************************************************************)
(* Upstream data: albums as the client returns them.                       *)
(***************************************************************************)
\* raw album records: a mapping (a.get) or an object (getattr)
AlbumItems ==
    { [shape |-> "dict", id |-> "i1", name |-> <<"n1">>, title |-> <<>>, url |-> "u1"],
      [shape |-> "obj",  id |-> "i2", name |-> <<>>, title |-> <<"n2">>, url |-> "u1"],
      [shape |-> "dict", id |-> "i1", name |-> <<>>, title |-> <<"n1">>, url |-> "u2"],
      [shape |-> "dict", id |-> "i1", name |-> <<"n2">>, title |-> <<>>, url |-> ""] }

\* what artist_albums_fn(artist_id, per_page, page) can do: raise, return a
\* value whose "albums" cannot be iterated, or return a page of albums
PageResponses ==
    {[kind |-> "raise", items |-> <<>>], [kind |-> "malformed", items |-> <<>>]}
    \cup {[kind |-> "page", items |-> s] : s \in SeqUpTo(AlbumItems, per_page)}

\* what search_artist(artist_name, max_songs=0, get_full_info=False) can do
ArtistResponses ==
    {[kind |-> "raise", id |-> "None", url |-> ""],
     [kind |-> "none", id |-> "None", url |-> ""]}
    \cup {[kind |-> k, id |-> i, url |-> u] :
            k \in {"dict", "obj"}, i \in {"None", "a1"}, u \in {"", "ua"}}

\* artist names: one with a usable slug, one of punctuation only
ArtistNames == {"ab", "!!"}

(***************************************************************************)
(* fetch_artist_albums                                                     *)
(***************************************************************************)
\* the name of a raw album: a.get("name"), or getattr name then title
AlbumName(a) ==
    IF a.shape = "dict" THEN a.name
    ELSE IF a.name # <<>> THEN a.name ELSE a.title

NormAlbum(a) == [id |-> a.id, name |-> AlbumName(a), url |-> a.url]

\* a for loop without the `break` at the limit
AppendAlbums_NoBreak(acc, items, limit) ==
    LET named == SelectSeq(items, LAMBDA a : AlbumName(a) # <<>>)
    IN  acc \o [i \in 1..Len(named) |-> NormAlbum(named[i])]

\* the for loop over one page: append the named albums, stop at the limit
RECURSIVE AppendAlbums(_, _, _)
AppendAlbums(acc, items, limit) ==
    IF items = <<>> THEN acc
    ELSE LET a == Head(items)
             acc1 == IF AlbumName(a) # <<>> THEN Append(acc, NormAlbum(a)) ELSE acc
         IN  IF Len(acc1) >= limit THEN acc1
             ELSE AppendAlbums(acc1, Tail(items), limit)

(***************************************************************************)
(* scrape_artist_albums_from_url                                           *)
(***************************************************************************)
\* Matched anchors of a document: the anchor text and the text of its parent
\* (sequences of words; the parent's text holds the anchor's), the absolute
\* url (urljoin), and whether the anchor lies in an element whose class names
\* an album area.
Anchors ==
    { [text |-> <<"w">>, parent |-> <<"v", "w">>, full |-> "u1", insec |-> TRUE],
      [text |-> <<"w", "x", "(2", "tracks)">>, parent |-> <<"w", "x", "(2", "tracks)">>,
       full |-> "u2", insec |-> FALSE],
      [text |-> <<>>, parent |-> <<>>, full |-> "u1", insec |-> FALSE],
      [text |-> <<>>, parent |-> <<>>, full |-> "u3", insec |-> TRUE],
      [text |-> <<"1.">>, parent |-> <<"1.">>, full |-> "u2", insec |-> FALSE],
      [text |-> <<"1.", "w", "|", "Genius">>, parent |-> <<"1.", "w", "|", "Genius">>,
       full |-> "u2", insec |-> TRUE] }

\* one requests.get + BeautifulSoup: a network error, a status other than 200,
\* a parser failure, or a document with its matched anchors in document order
FetchResponses ==
    {[kind |-> k, anchors |-> <<>>] : k \in {"neterr", "non200", "parseerr"}}
    \cup {[kind |-> "doc", anchors |-> s] : s \in SeqUpTo(Anchors, MaxAnchors)}

\* the last path segment of a url with "-" and "_" turned into spaces, stripped
SlugOf(u) == IF u = "u1" THEN <<"s1">> ELSE IF u = "u2" THEN <<"s2">> ELSE <<>>

RECURSIVE IndexOfGenius(_, _)
\* first i with text[i] = "|" and text[i+1] starting "Genius", 0 if none
IndexOfGenius(text, i) ==
    IF i >= Len(text) THEN 0
    ELSE IF text[i] = "|" /\ text[i + 1] = "Genius" THEN i
    ELSE IndexOfGenius(text, i + 1)

\* re.sub(r'\s*\|\s*Genius.*$', '', t).strip()
StripGenius(text) ==
    LET i == IndexOfGenius(text, 1)
    IN  IF i = 0 THEN text ELSE SubSeq(text, 1, i - 1)

\* re.sub(r'\s*\(\d+\s*tracks?\)\s*$', '', t).strip()
StripTracks(text) ==
    IF Len(text) >= 2 /\ text[Len(text) - 1] = "(2" /\ text[Len(text)] = "tracks)"
    THEN SubSeq(text, 1, Len(text) - 2)
    ELSE text

\* re.sub(r'^\d+\.\s*', '', t).strip()
StripOrdinal(text) ==
    IF text # <<>> /\ Head(text) = "1." THEN Tail(text) ELSE text

CleanText(text) == StripTracks(StripGenius(text))

\* the text the section pass takes for an anchor: the parent's text when the
\* anchor's own text has at most one word (a Tag is always truthy)
SectionText(a) == IF Len(a.text) <= 1 THEN a.parent ELSE a.text

\* One pass over anchors: skip urls already seen, collect (text, full) pairs,
\* stop at max_albums.  st = [anchors, seen].
RECURSIVE CollectAnchors(_, _, _, _)
CollectAnchors(as, st, insection, max) ==
    IF as = <<>> THEN st
    ELSE LET a == Head(as)
         IN  IF (insection /\ ~a.insec) \/ a.full \in st.seen
             THEN CollectAnchors(Tail(as), st, insection, max)
             ELSE LET t == CleanText(IF insection THEN SectionText(a) ELSE a.text)
                      st1 == [anchors |-> Append(st.anchors, [text |-> t, full |-> a.full]),
                              seen |-> st.seen \cup {a.full}]
                  IN  IF Len(st1.anchors) >= max THEN st1
                      ELSE CollectAnchors(Tail(as), st1, insection, max)

\* post-processing of the collected anchors into album dicts
RECURSIVE PostProcess(_, _, _)
PostProcess(anchors, found, max) ==
    IF anchors = <<>> THEN found
    ELSE LET a == Head(anchors)
             t0 == IF a.text = <<>> THEN SlugOf(a.full) ELSE a.text
             t1 == StripOrdinal(t0)
         IN  IF t1 = <<>> THEN PostProcess(Tail(anchors), found, max)
             ELSE LET f1 == Append(found, [id |-> "None", name |-> t1, url |-> a.full])
                  IN  IF Len(f1) >= max THEN f1
                      ELSE PostProcess(Tail(anchors), f1, max)

\* the body of the loop over candidate_urls for one parsed document
ScrapeDoc(doc, found, seen, max) ==
    LET s0 == [anchors |-> <<>>, seen |-> seen]
        s1 == IF \E i \in 1..Len(doc) : doc[i].insec
              THEN CollectAnchors(doc, s0, TRUE, max) ELSE s0
        s2 == IF s1.anchors = <<>> THEN CollectAnchors(doc, s1, FALSE, max) ELSE s1
    IN  [found |-> PostProcess(s2.anchors, found, max), seen |-> s2.seen]

(***************************************************************************)
(* search_artist_and_list_albums                                           *)
(***************************************************************************)
\* re.sub of everything but letters, digits, blanks and "-", blanks to "-"
Slugify(name) == IF name = "ab" THEN "ab" ELSE ""

\* artist_meta's url, or one crafted from the name; "" when there is none
ArtistUrl(meta, name) ==
    IF meta.url # "" THEN meta.url
    ELSE IF Slugify(name) # "" THEN "genius.com/artists/" \o Slugify(name) ELSE ""

\* a scrape that runs whatever the API listing gave
ScrapeNeeded_Always(albs, url) == url # ""

\* `if not albums:` and `if artist_url:` decide whether the scrape runs
ScrapeNeeded(albs, url) == albs = <<>> /\ url # ""

\* control is back in search_artist_and_list_albums with the API's `albs`
\* (lines 376-402): scrape the artist page, or return
AfterApi(meta, albs, lg) ==
    /\ albums' = albs
    /\ IF ScrapeNeeded(albs, ArtistUrl(meta, artist_name))
       THEN /\ pc' = "scrape"
            /\ log' = Append(lg, "scrape_artist_albums_from_url")
            /\ outcome' = outcome
       ELSE /\ pc' = "done"
            /\ log' = lg
            /\ outcome' = "returned"
    /\ variant' = 1
    /\ found_albums' = <<>>
    /\ seen_urls' = {}

\* the variables of search_artist_and_list_albums before it runs
AlbIdle ==
    /\ albums = <<>>
    /\ page = 1
    /\ variant = 1
    /\ found_albums = <<>>
    /\ seen_urls = {}
    /\ api_ret = NoRet
    /\ scrape_ret = NoRet
    /\ log = <<>>
    /\ page_log = <<>>
    /\ last_page = NoPage

\* the variables of the two searches before they run
LyrIdle ==
    /\ resp = [kind |-> "none"]
    /\ results = <<>>
    /\ calls = 0
    /\ error = ""

\* the variables of the album-to-songs cascade before it runs
SongIdle ==
    /\ has_album = FALSE
    /\ has_album_songs = FALSE
    /\ has_artist_songs = FALSE
    /\ album = [id |-> "None", name |-> <<>>, url |-> ""]
    /\ songs = <<>>
    /\ all_songs = <<>>
    /\ song_page = 1
    /\ song_page_log = <<>>
    /\ song_last_page = NoPage
    /\ song_limit = 0
    /\ stage_ret = <<NoRet, NoRet, NoRet>>
    /\ endpoint_log = <<>>
    /\ song_log = <<>>

\* the variables of the dialogue before main_menu has been answered
UiIdle ==
    /\ max_choice = 0
    /\ caller = "none"
    /\ sel = <<>>
    /\ chosen = FALSE
    /\ answer = <<>>
    /\ checked = "none"
    /\ downloads = <<>>
    /\ report = ""
    /\ menu_choice = ""

\* no answer of the upstream recorded yet
NoUpstream == [artist |-> <<>>, pages |-> <<>>, fetches |-> <<>>, lyrics |-> <<>>]

\* a single call: nothing is recorded
RunIdle ==
    /\ run = 0
    /\ upstream = NoUpstream
    /\ first = NoRet

\* the answers tried: all of `pool`, but only its part `part` when the call
\* is to be repeated (the answers of a repeated call are kept, so that fewer
\* of them are followed)
Repeatable(pool, part) == IF run = 0 THEN pool ELSE part

\* the answers the upstream may give to the k-th request of one kind: any of
\* `pool`, but in a second call the answer it gave to that request before
Answers(pool, given, k) == IF run = 2 /\ k <= Len(given) THEN {given[k]} ELSE pool

\* the answers given so far once r has been given (kept during a first call)
Keep(given, r) == IF run = 1 THEN Append(given, r) ELSE given

\* a list that outlives the call (such as a mutable default argument)
FreshList_Reused(old) == old

\* `albums: List[Dict] = []`, `results = []` (lines 68, 207, 366): a new list,
\* whatever an earlier call left
FreshList(old) == <<>>

\* the arguments and the locals at a call
\* search_artist_and_list_albums(genius_client, artist_name, max_albums_fetch)
AlbumsCall ==
    /\ pc = "start"
    /\ outcome = "none"
    /\ has_artist_albums \in BOOLEAN
    /\ artist_name \in ArtistNames
    /\ max_albums_fetch \in 0..MaxLimit
    /\ AlbIdle
    /\ artist_meta = [kind |-> "none", id |-> "None", url |-> ""]
    /\ LyrIdle
    /\ artist_filter = <<>>
    /\ max_results = 0
    /\ title_arg = <<>>
    /\ artist_arg = <<>>
    /\ SongIdle
    /\ UiIdle

\* a single call of search_artist_and_list_albums
Init == AlbumsCall /\ RunIdle

\* lines 354-374: the artist lookup, then the call of fetch_artist_albums up
\* to its loop (lines 207-214)
SearchArtist ==
    /\ pc = "start"
    /\ \E r \in Answers(ArtistResponses, upstream.artist, 1) :
        /\ artist_meta' = r
        /\ upstream' = [upstream EXCEPT !.artist = Keep(@, r)]
        /\ CASE r.kind = "raise" ->
                  /\ pc' = "raised"
                  /\ outcome' = "raised"
                  /\ log' = <<"search_artist">>
                  /\ UNCHANGED <<albums, page, variant, found_albums, seen_urls, api_ret>>
             [] r.kind = "none" ->
                  /\ pc' = "done"
                  /\ outcome' = "returned"
                  /\ log' = <<"search_artist">>
                  /\ UNCHANGED <<albums, page, variant, found_albums, seen_urls, api_ret>>
             [] r.id = "None" /\ r.kind \in {"dict", "obj"} ->
                  \* artist_id is None: fetch_artist_albums is not called
                  /\ AfterApi(r, FreshList(albums), <<"search_artist">>)
                  /\ UNCHANGED <<page, api_ret>>
             [] r.id # "None" /\ ~has_artist_albums ->
                  \* no artist_albums method: fetch_artist_albums returns []
                  /\ AfterApi(r, FreshList(albums), <<"search_artist", "fetch_artist_albums">>)
                  /\ api_ret' = [state |-> "returned", val |-> <<>>]
                  /\ UNCHANGED page
             [] OTHER ->
                  /\ pc' = "alb_loop"
                  /\ log' = <<"search_artist", "fetch_artist_albums">>
                  /\ albums' = FreshList(albums)
                  /\ page' = 1
                  /\ UNCHANGED <<variant, found_albums, seen_urls, outcome, api_ret>>
    /\ UNCHANGED <<has_artist_albums, artist_name, max_albums_fetch, scrape_ret, page_log,
                   last_page>>
    /\ UNCHANGED <<lyrVars, songVars, uiVars, run, first>>

\* a loop that asks for the same page again
NextPageNo_Same(p) == p

\* `page += 1` (lines 240, 331)
NextPageNo(p) == p + 1

\* a resolver that drops what it has when a page request fails
OnRequestError_Discard(acc) == <<>>

\* `except Exception: ... break`, then `return albums` / `return songs`: what
\* a paging loop returns when a page request raises (lines 217-219, 312-314)
OnRequestError(acc) == acc

\* `while len(albums) < limit` is false: fetch_artist_albums returns albums
AlbumsLoopExit ==
    /\ pc = "alb_loop"
    /\ Len(albums) >= max_albums_fetch
    /\ api_ret' = [state |-> "returned", val |-> albums]
    /\ AfterApi(artist_meta, albums, log)
    /\ UNCHANGED <<has_artist_albums, artist_name, max_albums_fetch, artist_meta,
                   page, scrape_ret, page_log, last_page>>
    /\ UNCHANGED <<lyrVars, songVars, uiVars, runVars>>

\* One turn of the loop of fetch_artist_albums (lines 214-240): request a
\* page, append its named albums, and break or go on to the next page.
\* `more` says whether the model follows the run past this page.
AlbumsPage(r, more) ==
    /\ page_log' = IF more THEN Append(page_log, page) ELSE page_log
    /\ last_page' = r
    /\ upstream' = [upstream EXCEPT !.pages = Keep(@, r)]
    /\ CASE r.kind = "raise" ->
              \* logged as a warning; break; return albums
              /\ api_ret' = [state |-> "returned", val |-> OnRequestError(albums)]
              /\ AfterApi(artist_meta, OnRequestError(albums), log)
              /\ UNCHANGED page
         [] r.kind = "malformed" ->
              \* `for a in page_albums` raises; the caller's except sets albums = []
              /\ api_ret' = [state |-> "raised", val |-> <<>>]
              /\ AfterApi(artist_meta, <<>>, log)
              /\ UNCHANGED page
         [] r.kind = "page" /\ r.items = <<>> ->
              /\ api_ret' = [state |-> "returned", val |-> albums]
              /\ AfterApi(artist_meta, albums, log)
              /\ UNCHANGED page
         [] OTHER ->
              LET albs == AppendAlbums(albums, r.items, max_albums_fetch)
              IN  IF Len(r.items) < per_page
                  THEN /\ api_ret' = [state |-> "returned", val |-> albs]
                       /\ AfterApi(artist_meta, albs, log)
                       /\ UNCHANGED page
                  ELSE /\ albums' = albs
                       /\ page' = IF more THEN NextPageNo(page) ELSE page
                       /\ pc' = "alb_sleep"
                       /\ UNCHANGED <<variant, found_albums, seen_urls, outcome,
                                      api_ret, log>>
    /\ UNCHANGED <<has_artist_albums, artist_name, max_albums_fetch, artist_meta,
                   scrape_ret>>
    /\ UNCHANGED <<lyrVars, songVars, uiVars, run, first>>

\* pages of albums that have the id "i1" and a url
RepeatedPages ==
    {r \in PageResponses : \A a \in Range(r.items) : a.id = "i1" /\ a.url # ""}

FetchAlbumsPage ==
    /\ pc = "alb_loop"
    /\ Len(albums) < max_albums_fetch
    /\ page <= MaxPage
    /\ \E r \in Answers(Repeatable(PageResponses, RepeatedPages), upstream.pages, page) :
           AlbumsPage(r, TRUE)

\* time.sleep(0.2) at the end of a turn (line 241)
AlbumsSleep ==
    /\ pc = "alb_sleep"
    /\ pc' = "alb_loop"
    /\ last_page' = NoPage
    /\ UNCHANGED <<has_artist_albums, artist_name, max_albums_fetch, artist_meta,
                   albums, page, variant, found_albums, seen_urls, api_ret,
                   scrape_ret, log, page_log>>
    /\ UNCHANGED <<outcome, lyrVars, songVars, uiVars, runVars>>

\* a loop over candidate_urls without the `break` at line 606
ScrapeTurn_NoStop(f, v, found, seen, max) ==
    IF f.kind = "parseerr"
    THEN [status |-> "raise", variant |-> v, found |-> found, seen |-> seen]
    ELSE LET s == IF f.kind = "doc" THEN ScrapeDoc(f.anchors, found, seen, max)
                  ELSE [found |-> found, seen |-> seen]
             stop == v = NumVariants
         IN  [status |-> IF stop THEN "return" ELSE "continue",
              variant |-> IF stop THEN v ELSE v + 1,
              found |-> s.found, seen |-> s.seen]

\* a caller that forgets the scraped list
MergeScraped_KeepApi(albs, scraped) == albs

\* `if scraped: albums = scraped` (lines 395-397)
MergeScraped(albs, scraped) == IF scraped # <<>> THEN scraped ELSE albs

\* a caller that lets the failure of the scrape out
OnScrapeError_Raise(albs) == [outcome |-> "raised", albums |-> <<>>]

\* `except Exception: albums = albums or []` (lines 398-400): the failure of
\* the scrape is swallowed
OnScrapeError(albs) == [outcome |-> "returned", albums |-> albs]

\* One turn of the loop over candidate_urls (lines 532-606) on the answer f
\* to the fetch of variant v: the scrape raises, returns found_albums, or goes
\* on to the next variant.
ScrapeTurn(f, v, found, seen, max) ==
    CASE f.kind = "parseerr" ->
           \* BeautifulSoup raises outside any try: the scrape raises
           [status |-> "raise", variant |-> v, found |-> found, seen |-> seen]
      [] f.kind \in {"neterr", "non200"} ->
           \* `continue`; after the last variant the loop ends
           [status |-> IF v < NumVariants THEN "continue" ELSE "return",
            variant |-> IF v < NumVariants THEN v + 1 ELSE v,
            found |-> found, seen |-> seen]
      [] OTHER ->
           LET s == ScrapeDoc(f.anchors, found, seen, max)
               stop == s.found # <<>> \/ v = NumVariants
           IN  [status |-> IF stop THEN "return" ELSE "continue",
                variant |-> IF stop THEN v ELSE v + 1,
                found |-> s.found, seen |-> s.seen]

\* documents whose anchors lead to "u1"
RepeatedFetches ==
    {f \in FetchResponses : \A a \in Range(f.anchors) : a.full = "u1"}

\* scrape_artist_albums_from_url(artist_url, max_albums=max_albums_fetch) run
\* for search_artist_and_list_albums, one candidate url per step, and what
\* the caller does with its result (lines 393-402)
ScrapeVariant ==
    /\ pc = "scrape"
    /\ \E f \in Answers(Repeatable(FetchResponses, RepeatedFetches),
                          upstream.fetches, variant) :
        LET t == ScrapeTurn(f, variant, found_albums, seen_urls, max_albums_fetch)
        IN  /\ upstream' = [upstream EXCEPT !.fetches = Keep(@, f)]
            /\ variant' = t.variant
            /\ found_albums' = t.found
            /\ seen_urls' = t.seen
            /\ last_page' = NoPage
            /\ CASE t.status = "raise" ->
                      \* the caller's except keeps `albums or []`
                      /\ scrape_ret' = [state |-> "raised", val |-> <<>>]
                      /\ outcome' = OnScrapeError(albums).outcome
                      /\ albums' = OnScrapeError(albums).albums
                      /\ pc' = IF outcome' = "raised" THEN "raised" ELSE "done"
                 [] t.status = "return" ->
                      \* `if scraped: albums = scraped`
                      /\ scrape_ret' = [state |-> "returned", val |-> t.found]
                      /\ albums' = MergeScraped(albums, t.found)
                      /\ pc' = "done"
                      /\ outcome' = "returned"
                 [] OTHER ->
                      UNCHANGED <<pc, albums, outcome, scrape_ret>>
    /\ UNCHANGED <<has_artist_albums, artist_name, max_albums_fetch, artist_meta,
                   page, api_ret, log, page_log>>
    /\ UNCHANGED <<lyrVars, songVars, uiVars, run, first>>

Next ==
    \/ SearchArtist
    \/ AlbumsLoopExit
    \/ FetchAlbumsPage
    \/ AlbumsSleep
    \/ ScrapeVariant

Spec == Init /\ [][Next]_vars

\* The same program followed past MaxPage pages: beyond it the model no
\* longer counts the pages (page stays at MaxPage + 1, page_log is not
\* extended); everything else is as in FetchAlbumsPage.
FetchAlbumsPageAny ==
    /\ pc = "alb_loop"
    /\ Len(albums) < max_albums_fetch
    /\ \E r \in PageResponses : AlbumsPage(r, page <= MaxPage)

LiveNext ==
    \/ SearchArtist
    \/ AlbumsLoopExit
    \/ FetchAlbumsPageAny
    \/ AlbumsSleep
    \/ ScrapeVariant

\* The script is one sequential thread: while a step is possible it is taken.
LiveSpec == Init /\ [][LiveNext]_vars /\ WF_vars(LiveNext)

(***************************************************************************)
(* Claims about search_artist_and_list_albums                              *)
(***************************************************************************)
Finished == pc \in {"done", "raised"}

\* C1: short-circuit law.  Whenever fetch_artist_albums has returned a
\* non-empty list, scrape_artist_albums_from_url has not been and is never
\* invoked in that resolution.
C1_ShortCircuit ==
    (api_ret.state = "returned" /\ api_ret.val # <<>>)
        => "scrape_artist_albums_from_url" \notin Range(log)

C1_Witness ==
    /\ pc = "done"
    /\ api_ret.state = "returned"
    /\ Len(api_ret.val) >= 2
    /\ log = <<"search_artist", "fetch_artist_albums">>
    /\ albums = api_ret.val

\* the orders in which one resolution may have invoked its stages
StageOrders ==
    { <<>>,
      <<"search_artist">>,
      <<"search_artist", "fetch_artist_albums">>,
      <<"search_artist", "scrape_artist_albums_from_url">>,
      <<"search_artist", "fetch_artist_albums", "scrape_artist_albums_from_url">> }

\* C3: every resolution visits its stages in the fixed order artist lookup,
\* API album listing, scrape, never re-enters an earlier stage, and always
\* reaches the terminal state (it returns or raises), every external call
\* having returned or raised.
C3_OrderedAndTerminates == [](log \in StageOrders) /\ <>Finished

\* the key two albums must not share: the url, or the id when there is no url
DedupKey(a) == IF a.url # "" THEN <<"url", a.url>> ELSE <<"id", a.id>>

NoDuplicates(list) ==
    \A i, j \in 1..Len(list) : i # j => DedupKey(list[i]) # DedupKey(list[j])

\* C4: the album list returned by search_artist_and_list_albums, from the
\* API pages or from the scrape, holds no two entries with the same url (or
\* the same id when the url is absent).
C4_NoDuplicateUrls == outcome = "returned" => NoDuplicates(albums)

(***************************************************************************)
(* search_by_lyrics and search_by_title                                    *)
(*                                                                         *)
(* Texts are sequences of characters here, since the code strips and       *)
(* lower-cases them.                                                       *)
(***************************************************************************)
\* hits of search_lyrics: h["result"] with its title, primary_artist.name, url
Hits ==
    { [title |-> <<"t">>, artist |-> <<"a">>, url |-> <<"x">>],
      [title |-> <<"u">>, artist |-> <<"a">>, url |-> <<"x">>],
      [title |-> <<"t">>, artist |-> <<" ", "A">>, url |-> <<"y">>],
      [title |-> <<"t">>, artist |-> <<"a", " ">>, url |-> <<"x">>],
      [title |-> <<"t">>, artist |-> <<"b">>, url |-> <<"y">>],
      [title |-> <<"t">>, artist |-> <<>>, url |-> <<"y">>],
      [title |-> <<>>, artist |-> <<"a">>, url |-> <<>>] }

\* the hits h cut into sections after position c
Split(h, c) ==
    IF h = <<>> THEN <<>>
    ELSE IF c >= Len(h) THEN <<h>>
    ELSE <<SubSeq(h, 1, c), SubSeq(h, c + 1, Len(h))>>

RECURSIVE Flatten(_)
\* the hits of all sections, in API order
Flatten(sections) ==
    IF sections = <<>> THEN <<>> ELSE Head(sections) \o Flatten(Tail(sections))

\* what search_lyrics(snippet) can do: raise, or answer sections of hits
LyricsResponses ==
    {[kind |-> "raise", sections |-> <<>>]}
    \cup {[kind |-> "ok", sections |-> Split(h, c)] :
            h \in SeqUpTo(Hits, MaxHits), c \in 1..MaxHits}

\* artist filters: none, and two spellings of the artist "a"
Filters == {<<>>, <<"a">>, <<"A", " ">>}

\* what search_song(title, artist) can do: raise, find nothing, or return a
\* song as a mapping or as an object
SongResponses ==
    {[kind |-> "raise", title |-> <<>>, artist |-> <<>>, url |-> <<>>],
     [kind |-> "none", title |-> <<>>, artist |-> <<>>, url |-> <<>>]}
    \cup {[kind |-> k, title |-> t, artist |-> a, url |-> u] :
            k \in {"dict", "obj"}, t \in {<<>>, <<"t">>},
            a \in {<<>>, <<"a">>}, u \in {<<>>, <<"x">>}}

LowerChar(c) ==
    CASE c = "A" -> "a"
      [] c = "N" -> "n"
      [] c = "Y" -> "y"
      [] c = "M" -> "m"
      [] c = "P" -> "p"
      [] OTHER -> c

\* str.lower()
Lower(s) == [i \in 1..Len(s) |-> LowerChar(s[i])]

RECURSIVE LStrip(_)
LStrip(s) == IF s # <<>> /\ Head(s) = " " THEN LStrip(Tail(s)) ELSE s

RECURSIVE RStrip(_)
RStrip(s) ==
    IF s # <<>> /\ s[Len(s)] = " " THEN RStrip(SubSeq(s, 1, Len(s) - 1)) ELSE s

\* str.strip()
Strip(s) == RStrip(LStrip(s))

\* `if title and artist and url`
HitValid(h) == h.title # <<>> /\ h.artist # <<>> /\ h.url # <<>>

\* the entry built from a hit (line 84)
Entry(h) == [title |-> Strip(h.title), artist |-> Strip(h.artist), url |-> Strip(h.url)]

\* a filter that compares without lower-casing
FilterPasses_CaseSensitive(filter, artist) ==
    filter = <<>> \/ Strip(filter) = Strip(artist)

\* lines 85-87: the hit passes the artist filter
FilterPasses(filter, artist) ==
    filter = <<>> \/ Lower(Strip(filter)) = Lower(Strip(artist))

\* `if entry not in results`
IsNew(entry, res) == \A i \in 1..Len(res) : res[i] # entry

\* `if len(results) >= max_results: break`
LimitReached(res, max) == Len(res) >= max

\* the inner loop over the hits of one section (lines 77-91)
RECURSIVE ScanHits(_, _, _, _)
ScanHits(hits, res, filter, max) ==
    IF hits = <<>> THEN res
    ELSE LET h == Head(hits)
         IN  IF HitValid(h) /\ ~FilterPasses(filter, h.artist)
             THEN \* `continue`: the length check below is skipped
                  ScanHits(Tail(hits), res, filter, max)
             ELSE LET res1 == IF HitValid(h) /\ IsNew(Entry(h), res)
                              THEN Append(res, Entry(h)) ELSE res
                  IN  IF LimitReached(res1, max) THEN res1
                      ELSE ScanHits(Tail(hits), res1, filter, max)

\* the outer loop over the sections (lines 75-93)
RECURSIVE ScanSections(_, _, _, _)
ScanSections(sections, res, filter, max) ==
    IF sections = <<>> THEN res
    ELSE LET res1 == ScanHits(Head(sections), res, filter, max)
         IN  IF LimitReached(res1, max) THEN res1
             ELSE ScanSections(Tail(sections), res1, filter, max)

\* a search call that is issued again after it raised
AfterSearchError_Retry(retry) == retry

\* where control goes when the search call raised: to the caller, with an
\* error (lines 68-69, 100-101); `retry` is the control point of the call
AfterSearchError(retry) == "raised"

\* answers whose hits have the url "x"
RepeatedLyrics ==
    {r \in LyricsResponses : \A h \in Range(Flatten(r.sections)) : h.url = <<"x">>}

\* search_by_lyrics(genius_client, snippet, artist_filter, max_results)
SearchByLyrics ==
    /\ pc = "lyr_start"
    /\ calls' = calls + 1
    /\ \E r \in Answers(Repeatable(LyricsResponses, RepeatedLyrics), upstream.lyrics, 1) :
        /\ resp' = r
        /\ upstream' = [upstream EXCEPT !.lyrics = Keep(@, r)]
        /\ IF r.kind = "raise"
           THEN /\ pc' = AfterSearchError("lyr_start")
                /\ outcome' = "raised"
                /\ error' = "RuntimeError: Genius search_lyrics failed"
                /\ UNCHANGED results
           ELSE /\ pc' = "done"
                /\ outcome' = "returned"
                /\ results' = ScanSections(r.sections, FreshList(results), artist_filter,
                                           max_results)
                /\ UNCHANGED error
    /\ UNCHANGED <<artist_filter, max_results, title_arg, artist_arg, albVars, songVars,
                   uiVars, run, first>>

\* song_title, song_artist, song_url of search_by_title (lines 107-109)
SongTitle(song, title) ==
    IF song.kind = "dict" THEN song.title
    ELSE IF song.title # <<>> THEN song.title ELSE title

SongArtist(song, artist) ==
    IF song.kind = "dict" THEN song.artist
    ELSE IF song.artist # <<>> THEN song.artist
    ELSE IF artist # <<>> THEN artist ELSE <<"U", "n", "k", "n", "o", "w", "n">>

SongUrl(song) == song.url

\* search_by_title(genius_client, title, artist)
SearchByTitle ==
    /\ pc = "title_start"
    /\ calls' = calls + 1
    /\ \E r \in SongResponses :
        /\ resp' = r
        /\ CASE r.kind = "raise" ->
                  /\ pc' = AfterSearchError("title_start")
                  /\ outcome' = "raised"
                  /\ error' = "RuntimeError: Genius search_song failed"
                  /\ UNCHANGED results
             [] r.kind = "none" ->
                  /\ pc' = "done"
                  /\ outcome' = "returned"
                  /\ results' = <<>>
                  /\ UNCHANGED error
             [] OTHER ->
                  /\ pc' = "done"
                  /\ outcome' = "returned"
                  /\ results' = << [title |-> SongTitle(r, title_arg),
                                    artist |-> SongArtist(r, artist_arg),
                                    url |-> SongUrl(r)] >>
                  /\ UNCHANGED error
    /\ UNCHANGED <<artist_filter, max_results, title_arg, artist_arg, albVars, songVars,
                   uiVars, runVars>>

\* a call of search_by_lyrics or of search_by_title
SearchCall ==
    /\ outcome = "none"
    /\ AlbIdle
    /\ artist_meta = [kind |-> "none", id |-> "None", url |-> ""]
    /\ has_artist_albums = FALSE
    /\ artist_name = "ab"
    /\ max_albums_fetch = 0
    /\ LyrIdle
    /\ SongIdle
    /\ UiIdle
    /\ \/ /\ pc = "lyr_start"
          /\ artist_filter \in Filters
          /\ max_results \in 0..MaxResults
          /\ title_arg = <<>>
          /\ artist_arg = <<>>
       \/ /\ pc = "title_start"
          /\ artist_filter = <<>>
          /\ max_results = 0
          /\ title_arg \in {<<>>, <<"t">>}
          /\ artist_arg \in {<<>>, <<"a">>}

\* a single call of search_by_lyrics or of search_by_title
InitSearch == SearchCall /\ RunIdle

NextSearch ==
    \/ SearchByLyrics
    \/ SearchByTitle

SpecSearch == InitSearch /\ [][NextSearch]_vars

(***************************************************************************)
(* handle_artist_search: from the chosen album to its songs                *)
(* (lines 630-680).  Texts are sequences of symbols.                       *)
(***************************************************************************)
\* tracks and songs as the client returns them
Tracks ==
    { [title |-> <<"t">>, artist |-> <<"a">>, url |-> "x1"],
      [title |-> <<>>, artist |-> <<>>, url |-> "x2"] }

\* songs of artist_songs / search_artist: as Tracks, with the album's name
RawSongs ==
    { [title |-> <<"t">>, artist |-> <<"a">>, url |-> "x1", album |-> <<"N", "x">>],
      [title |-> <<>>, artist |-> <<>>, url |-> "x2", album |-> <<"n">>],
      [title |-> <<"u">>, artist |-> <<"a">>, url |-> "x3", album |-> <<>>] }

\* what album_fn(album_id) can do: raise, return a mapping or an object with
\* its tracks, or return a mapping whose tracks are not mappings
AlbumAnswers ==
    {[kind |-> "raise", tracks |-> <<>>], [kind |-> "malformed", tracks |-> <<>>]}
    \cup {[kind |-> k, tracks |-> t] : k \in {"dict", "obj"}, t \in SeqUpTo(Tracks, MaxTracks)}

\* what album_songs_fn(album_id) can do
AlbumSongsAnswers ==
    {[kind |-> "raise", tracks |-> <<>>], [kind |-> "malformed", tracks |-> <<>>]}
    \cup {[kind |-> "dict", tracks |-> t] : t \in SeqUpTo(Tracks, MaxTracks)}

\* what artist_songs_fn(artist_id, per_page, page) can do
SongPageResponses ==
    {[kind |-> "raise", items |-> <<>>], [kind |-> "malformed", items |-> <<>>]}
    \cup {[kind |-> "page", items |-> t] : t \in SeqUpTo(RawSongs, per_page)}

\* what search_artist(..., get_full_info=True) can do: raise, find nothing, or
\* return an artist with its songs
FullArtistAnswers ==
    {[kind |-> "raise", items |-> <<>>], [kind |-> "none", items |-> <<>>]}
    \cup {[kind |-> "obj", items |-> t] : t \in SeqUpTo(RawSongs, per_page)}

\* the albums the user can have chosen: from the API with or without a url,
\* or from the scrape (no id)
AlbumChoices ==
    { [id |-> "i1", name |-> <<"n">>, url |-> "u1"],
      [id |-> "i1", name |-> <<"n">>, url |-> ""],
      [id |-> "None", name |-> <<"n">>, url |-> "u1"] }

\* the artist the albums were listed for (line 617): the client's object, or a
\* mapping, with or without an id
ChosenArtists ==
    { [kind |-> "obj", id |-> "a1", url |-> "ua"],
      [kind |-> "obj", id |-> "None", url |-> "ua"],
      [kind |-> "dict", id |-> "a1", url |-> "ua"] }

\* {"title": ..., "artist": ..., "url": ...} of a track
SongOf(t) == [title |-> t.title, artist |-> t.artist, url |-> t.url]

SongsOf(tracks) == [i \in 1..Len(tracks) |-> SongOf(tracks[i])]

\* {"title", "artist", "url", "album"} of an artist's song
ArtistSongOf(t) == [title |-> t.title, artist |-> t.artist, url |-> t.url, album |-> t.album]

\* the answer a1 of album_fn makes fetch_album_songs return (lines 254-285):
\* a mapping always, an object when it has tracks
AlbumSuffices(ha, a1) ==
    ha /\ (a1.kind = "dict" \/ (a1.kind = "obj" /\ a1.tracks # <<>>))

\* a fetch_album_songs that does not look whether the client has the methods
FetchAlbumSongs_NoCapCheck(ha, hs, a1, a2) ==
    IF a1.kind = "dict" \/ (a1.kind = "obj" /\ a1.tracks # <<>>)
    THEN [val |-> SongsOf(a1.tracks), called |-> <<"album">>]
    ELSE [val |-> IF a2.kind = "dict" THEN SongsOf(a2.tracks) ELSE <<>>,
          called |-> <<"album", "album_songs">>]

\* fetch_album_songs (lines 248-295) on the answers a1 of album and a2 of
\* album_songs: the list returned and the endpoints called
FetchAlbumSongs(ha, hs, a1, a2) ==
    LET called1 == IF ha THEN <<"album">> ELSE <<>>
    IN  IF AlbumSuffices(ha, a1) THEN [val |-> SongsOf(a1.tracks), called |-> called1]
        ELSE IF hs /\ a2.kind = "dict"
             THEN [val |-> SongsOf(a2.tracks), called |-> Append(called1, "album_songs")]
             ELSE [val |-> <<>>,
                   called |-> IF hs THEN Append(called1, "album_songs") ELSE called1]

\* a scrape of the album page that runs whatever the album endpoints gave
ScrapeAlbumNeeded_Always(sngs, url) == url # ""

\* `if not songs and album_url:` (line 643)
ScrapeAlbumNeeded(sngs, url) == sngs = <<>> /\ url # ""

\* `if not songs:` (line 653)
FallbackNeeded(sngs) == sngs = <<>>

\* s occurs in t as a contiguous part: `s in t`
IsInfix(s, t) ==
    \E i \in 0..(Len(t) - Len(s)) : SubSeq(t, i + 1, i + Len(s)) = s

\* lines 667-673: the songs whose album field holds the album's name
FilterByAlbum(list, name) ==
    LET keep == SelectSeq(list, LAMBDA x :
                    x.album # <<>> /\ name # <<>> /\ IsInfix(Lower(name), Lower(x.album)))
    IN  [i \in 1..Len(keep) |-> SongOf(keep[i])]

\* artist_id = getattr(artist_obj, "id", None): None for a mapping
HandlerArtistId(meta) == IF meta.kind = "obj" THEN meta.id ELSE "None"

\* the for loop of fetch_artist_songs over one page (lines 318-328)
RECURSIVE AppendSongs(_, _, _)
AppendSongs(acc, items, limit) ==
    IF items = <<>> THEN acc
    ELSE LET acc1 == Append(acc, ArtistSongOf(Head(items)))
         IN  IF Len(acc1) >= limit THEN acc1
             ELSE AppendSongs(acc1, Tail(items), limit)

\* the cascade goes on after stage k (2 or 3) gave `sngs` (ret says how)
AfterStage(k, ret, sngs) ==
    /\ songs' = sngs
    /\ stage_ret' = [stage_ret EXCEPT ![k] = [state |-> ret, val |-> sngs]]
    /\ IF k < 3 /\ FallbackNeeded(sngs)
       THEN /\ pc' = "song_fallback"
            /\ song_log' = Append(song_log, "artist_songs_filter")
       ELSE /\ pc' = "songs_done"
            /\ song_log' = song_log

\* lines 635-640: fetch_album_songs
AlbumSongsStage ==
    /\ pc = "song_start"
    /\ \E a1 \in AlbumAnswers :
       \E a2 \in IF AlbumSuffices(has_album, a1) \/ ~has_album_songs
                 THEN {[kind |-> "raise", tracks |-> <<>>]}
                 ELSE AlbumSongsAnswers :
        LET r == FetchAlbumSongs(has_album, has_album_songs, a1, a2)
        IN  /\ endpoint_log' = r.called
            /\ songs' = r.val
            /\ stage_ret' = [stage_ret EXCEPT ![1] = [state |-> "returned", val |-> r.val]]
            /\ IF ScrapeAlbumNeeded(r.val, album.url)
               THEN /\ pc' = "song_scrape"
                    /\ song_log' = <<"fetch_album_songs", "scrape_album_page">>
               ELSE IF FallbackNeeded(r.val)
               THEN /\ pc' = "song_fallback"
                    /\ song_log' = <<"fetch_album_songs", "artist_songs_filter">>
               ELSE /\ pc' = "songs_done"
                    /\ song_log' = <<"fetch_album_songs">>
    /\ UNCHANGED <<has_album, has_album_songs, has_artist_songs, album, all_songs,
                   song_page, song_page_log, song_last_page, song_limit>>
    /\ UNCHANGED <<outcome, albVars, lyrVars, uiVars, runVars>>

\* lines 643-651: scrape_artist_albums_from_url(album_url), one candidate url
\* per step
AlbumPageScrape ==
    /\ pc = "song_scrape"
    /\ \E f \in FetchResponses :
        LET t == ScrapeTurn(f, variant, found_albums, seen_urls, DefaultMaxAlbums)
        IN  /\ variant' = t.variant
            /\ found_albums' = t.found
            /\ seen_urls' = t.seen
            /\ CASE t.status = "raise" -> AfterStage(2, "raised", <<>>)
                 [] t.status = "return" -> AfterStage(2, "returned", t.found)
                 [] OTHER -> UNCHANGED <<pc, songs, stage_ret, song_log>>
    /\ UNCHANGED <<has_album, has_album_songs, has_artist_songs, album, all_songs,
                   song_page, song_page_log, song_last_page, song_limit, endpoint_log>>
    /\ UNCHANGED <<has_artist_albums, artist_name, max_albums_fetch, artist_meta,
                   albums, page, api_ret, scrape_ret, log, page_log, last_page>>
    /\ UNCHANGED <<outcome, lyrVars, uiVars, runVars>>

\* the answer r of search_artist(..., get_full_info=True) is turned into
\* all_songs and filtered; `swallowed` says that a failure is caught inside
\* fetch_artist_songs (line 343) and not by the handler (line 674)
FullArtistSongs(r, swallowed) ==
    LET out == [i \in 1..Len(r.items) |-> ArtistSongOf(r.items[i])]
    IN  /\ all_songs' = out
        /\ endpoint_log' = Append(endpoint_log, "search_artist")
        /\ IF r.kind = "raise" /\ ~swallowed
           THEN AfterStage(3, "raised", <<>>)
           ELSE AfterStage(3, "returned", FilterByAlbum(out, album.name))

\* lines 656-665 and 298-308, 335-344: the artist's songs are asked for
ArtistSongsStart ==
    /\ pc = "song_fallback"
    /\ IF HandlerArtistId(artist_meta) # "None"
       THEN \* fetch_artist_songs(genius, artist_id, limit)
            \E l \in 0..MaxLimit :
                /\ song_limit' = l
                /\ IF has_artist_songs
                   THEN \* the paging loop is entered
                        /\ pc' = "songs_loop"
                        /\ all_songs' = <<>>
                        /\ UNCHANGED <<songs, stage_ret, song_log, endpoint_log>>
                   ELSE \E r \in FullArtistAnswers : FullArtistSongs(r, TRUE)
       ELSE \* the handler asks search_artist itself
            /\ UNCHANGED song_limit
            /\ \E r \in FullArtistAnswers : FullArtistSongs(r, FALSE)
    /\ UNCHANGED <<has_album, has_album_songs, has_artist_songs, album, song_page,
                   song_page_log, song_last_page>>
    /\ UNCHANGED <<outcome, albVars, lyrVars, uiVars, runVars>>

\* `while len(songs) < limit` is false: fetch_artist_songs returns, the
\* handler filters by album name (lines 309, 333, 667-673)
ArtistSongsLoopExit ==
    /\ pc = "songs_loop"
    /\ Len(all_songs) >= song_limit
    /\ AfterStage(3, "returned", FilterByAlbum(all_songs, album.name))
    /\ UNCHANGED <<has_album, has_album_songs, has_artist_songs, album, all_songs,
                   song_page, song_page_log, song_last_page, song_limit, endpoint_log>>
    /\ UNCHANGED <<outcome, albVars, lyrVars, uiVars, runVars>>

\* one turn of the loop of fetch_artist_songs (lines 309-332)
ArtistSongsPage ==
    /\ pc = "songs_loop"
    /\ Len(all_songs) < song_limit
    /\ song_page_log' = Append(song_page_log, song_page)
    /\ \E r \in SongPageResponses :
        /\ song_last_page' = r
        /\ CASE r.kind = "malformed" ->
                  \* s.get raises out of fetch_artist_songs; the handler's except
                  \* sets songs = []
                  /\ AfterStage(3, "raised", <<>>)
                  /\ UNCHANGED <<all_songs, song_page>>
             [] r.kind = "raise" ->
                  /\ all_songs' = OnRequestError(all_songs)
                  /\ AfterStage(3, "returned",
                                FilterByAlbum(OnRequestError(all_songs), album.name))
                  /\ UNCHANGED song_page
             [] r.items = <<>> ->
                  /\ AfterStage(3, "returned", FilterByAlbum(all_songs, album.name))
                  /\ UNCHANGED <<all_songs, song_page>>
             [] OTHER ->
                  LET acc == AppendSongs(all_songs, r.items, song_limit)
                  IN  /\ all_songs' = acc
                      /\ IF Len(r.items) < per_page
                         THEN /\ AfterStage(3, "returned", FilterByAlbum(acc, album.name))
                              /\ UNCHANGED song_page
                         ELSE /\ song_page' = NextPageNo(song_page)
                              /\ UNCHANGED <<pc, songs, stage_ret, song_log>>
    /\ UNCHANGED <<has_album, has_album_songs, has_artist_songs, album, song_limit,
                   endpoint_log>>
    /\ UNCHANGED <<outcome, albVars, lyrVars, uiVars, runVars>>

\* handle_artist_search at line 634: an album was chosen
InitSongs ==
    /\ pc = "song_start"
    /\ outcome = "none"
    /\ AlbIdle
    /\ artist_meta \in ChosenArtists
    /\ has_artist_albums = TRUE
    /\ artist_name = "ab"
    /\ max_albums_fetch = 0
    /\ LyrIdle
    /\ artist_filter = <<>>
    /\ max_results = 0
    /\ title_arg = <<>>
    /\ artist_arg = <<>>
    /\ has_album \in BOOLEAN
    /\ has_album_songs \in BOOLEAN
    /\ has_artist_songs \in BOOLEAN
    /\ album \in AlbumChoices
    \* an album with an id came from fetch_artist_albums, called with an id
    /\ album.id # "None" => artist_meta.id # "None"
    /\ songs = <<>>
    /\ all_songs = <<>>
    /\ song_page = 1
    /\ song_page_log = <<>>
    /\ song_last_page = NoPage
    /\ song_limit = 0
    /\ stage_ret = <<NoRet, NoRet, NoRet>>
    /\ endpoint_log = <<>>
    /\ song_log = <<>>
    /\ UiIdle
    /\ RunIdle

NextSongs ==
    \/ AlbumSongsStage
    \/ AlbumPageScrape
    \/ ArtistSongsStart
    \/ ArtistSongsLoopExit
    \/ ArtistSongsPage

SpecSongs == InitSongs /\ [][NextSongs]_vars

\* handle_artist_search as a whole: the listing of the albums (line 616), or,
\* an album chosen, the listing of its songs (lines 630-680)
InitArtist == Init \/ InitSongs

NextArtist == Next \/ NextSongs

SpecArtist == InitArtist /\ [][NextArtist]_vars

(***************************************************************************)
(* handle_artist_search once search_artist_and_list_albums is over         *)
(* (lines 614-629 and 706-721)                                             *)
(***************************************************************************)
\* a handler that never presents the albums
AlbumsFound_Never(albs) == FALSE

\* `if albums:` (line 621)
AlbumsFound(albs) == albs # <<>>

\* the names under which the log holds a fetch of the artist's whole song list
SongFetches == {"fetch_artist_songs", "search_artist(get_full_info=True)"}

\* lines 615-619: the album search raised; the handler reports it and returns
ArtistSearchFailed ==
    /\ pc = "raised"
    /\ log # <<>>
    /\ pc' = "menu"
    /\ report' = "Artist search failed"
    /\ UNCHANGED <<max_choice, caller, sel, chosen, answer, checked, downloads, menu_choice>>
    /\ UNCHANGED <<outcome, albVars, lyrVars, songVars, runVars>>

\* lines 621-629: albums were found; they are listed and the user is asked
\* for one (no song has been fetched)
PresentAlbums ==
    /\ pc = "done"
    /\ log # <<>>
    /\ AlbumsFound(albums)
    /\ pc' = "album_menu"
    /\ max_choice' = Len(albums)
    /\ caller' = "album"
    /\ UNCHANGED <<sel, chosen, answer, checked, downloads, report, menu_choice>>
    /\ UNCHANGED <<outcome, albVars, lyrVars, songVars, runVars>>

\* lines 706-721: no album; the artist's songs are fetched before any choice
SongsUpFront ==
    /\ pc = "done"
    /\ log # <<>>
    /\ ~AlbumsFound(albums)
    /\ pc' = "upfront"
    /\ log' = Append(log, IF HandlerArtistId(artist_meta) = "None"
                          THEN "search_artist(get_full_info=True)"
                          ELSE "fetch_artist_songs")
    /\ UNCHANGED <<has_artist_albums, artist_name, max_albums_fetch, artist_meta,
                   albums, page, variant, found_albums, seen_urls, api_ret,
                   scrape_ret, page_log, last_page>>
    /\ UNCHANGED <<outcome, lyrVars, songVars, uiVars, runVars>>

NextHandler ==
    \/ Next
    \/ ArtistSearchFailed
    \/ PresentAlbums
    \/ SongsUpFront

SpecHandler == Init /\ [][NextHandler]_vars

(***************************************************************************)
(* search_by_lyrics and search_artist_and_list_albums called a second time *)
(* with the same arguments, against an upstream that answers every request *)
(* as it did during the first call.  The second call starts with the       *)
(* objects as the first one left them.                                     *)
(***************************************************************************)
\* what the call returned or raised
Result ==
    [state |-> outcome,
     val |-> [artist |-> artist_meta, albums |-> albums, results |-> results,
              error |-> error]]

\* the same call is made again
CallAgain ==
    /\ run = 1
    /\ pc \in {"done", "raised"}
    /\ run' = 2
    /\ first' = Result
    /\ pc' = IF log # <<>> THEN "start" ELSE "lyr_start"
    /\ outcome' = "none"
    \* the history of the call starts anew
    /\ api_ret' = NoRet
    /\ scrape_ret' = NoRet
    /\ log' = <<>>
    /\ page_log' = <<>>
    /\ last_page' = NoPage
    /\ calls' = 0
    /\ error' = ""
    /\ resp' = [kind |-> "none"]
    /\ UNCHANGED <<has_artist_albums, artist_name, max_albums_fetch, artist_meta,
                   albums, page, variant, found_albums, seen_urls>>
    /\ UNCHANGED <<artist_filter, max_results, title_arg, artist_arg, results>>
    /\ UNCHANGED <<songVars, uiVars, upstream>>

InitTwice ==
    /\ run = 1
    /\ upstream = NoUpstream
    /\ first = NoRet
    /\ \/ AlbumsCall /\ artist_name = "ab"
       \/ SearchCall /\ pc = "lyr_start"

NextTwice ==
    \/ Next
    \/ SearchByLyrics
    \/ CallAgain

SpecTwice == InitTwice /\ [][NextTwice]_vars

(***************************************************************************)
(* main, the dialogue of the handlers, choose_from_list and                *)
(* post_lyrics_actions (lines 405-505, 611-775).  The resolvers are seen   *)
(* from the handlers: a search raises or returns a list of some length, a  *)
(* lyrics fetch or a download succeeds or raises.                          *)
(***************************************************************************)
\* the longest list a handler presents
MaxList == IF MaxResults >= MaxLimit THEN MaxResults ELSE MaxLimit

\* what the user may type at "Select an option: " (stripped)
MenuInputs == {"1", "2", "3", "0", "9", ""}

\* what the user may type at a prompt of choose_from_list (stripped): decimal
\* digits with their value, a text that is not all digits ("x", "", "-1"),
\* or a digit character that is not a decimal digit ("²")
ChoiceInputs ==
    [kind : {"decimal"}, val : 0..(MaxList + 1)]
        \cup {[kind |-> "text", val |-> 0], [kind |-> "superscript", val |-> 0]}

\* what the user may type at "Download audio from YouTube? [y/N]: "
YesNoInputs ==
    { <<"y">>, <<"Y">>, <<"y", "e", "s">>, <<"n">>, <<"N", "o">>, <<>>, <<" ">>,
      <<"o", "k">> }

\* what the user may type at "Audio format ...: "
FormatInputs ==
    { <<>>, <<"m", "p", "3">>, <<"M", "P", "3">>, <<"m", "4", "a">>,
      <<" ", "w", "a", "v">>, <<"f", "l", "a", "c">>, <<"o", "g", "g">> }

AudioFormats ==
    { <<"m", "p", "3">>, <<"m", "4", "a">>, <<"w", "e", "b", "m">>,
      <<"a", "a", "c">>, <<"w", "a", "v">>, <<"f", "l", "a", "c">> }

\* what a search gives a handler: it raises, or returns a list of n entries
SearchOutcomes(max) ==
    {[kind |-> "raise", n |-> 0]} \cup [kind : {"ok"}, n : 0..max]

\* str.isdigit()
IsDigit(tok) == tok.kind \in {"decimal", "superscript"}

\* int(choice): ValueError on a digit character that is not a decimal digit
IntOf(tok) ==
    IF tok.kind = "decimal" THEN [ok |-> TRUE, val |-> tok.val]
    ELSE [ok |-> FALSE, val |-> 0]

\* a format taken as typed
ChosenFormat_AsTyped(typed) ==
    IF Lower(Strip(typed)) = <<>> THEN <<"m", "p", "3">> ELSE Lower(Strip(typed))

\* lines 436-438: the format handed to the downloader
ChosenFormat(typed) ==
    LET fmt == IF Lower(Strip(typed)) = <<>> THEN <<"m", "p", "3">>
               ELSE Lower(Strip(typed))
    IN  IF fmt \notin AudioFormats THEN <<"m", "p", "3">> ELSE fmt

\* the calls of choose_from_list that select a song
SongSites == {"lyrics", "title", "album_song", "group_song"}

\* where a handler goes on with the index choose_from_list returned
AfterChoice(c) ==
    CASE c \in SongSites -> "fetch_lyrics"
      [] c = "album" -> "cascade"
      [] c = "group" -> "group_songs"

\* choose_from_list(prompt, n) is called from site c
Choose(n, c) ==
    /\ pc' = "choose"
    /\ max_choice' = n
    /\ caller' = c
    /\ sel' = <<>>

\* the handler returns to the loop of main
BackToMenu == pc' = "menu"

\* main (lines 763-775) with main_menu (419-426)
MainMenu ==
    /\ pc = "menu"
    /\ \E c \in MenuInputs :
        /\ menu_choice' = c
        /\ pc' = CASE c = "1" -> "h_lyrics"
                   [] c = "2" -> "h_title"
                   [] c = "3" -> "h_artist"
                   [] c = "0" -> "exited"
                   [] OTHER -> "menu"
    /\ max_choice' = 0
    /\ caller' = "none"
    /\ sel' = <<>>
    /\ chosen' = FALSE
    /\ answer' = <<>>
    /\ checked' = "none"
    /\ downloads' = <<>>
    /\ report' = ""
    /\ UNCHANGED <<outcome, albVars, lyrVars, songVars, runVars>>

\* a handler up to its first choose_from_list: the text asked for is blank,
\* or the search raises, or it returns a list (lines 452-465, 480-493)
HandleSearch(at, site, max, failure) ==
    /\ pc = at
    /\ \E blank \in BOOLEAN : \E r \in SearchOutcomes(max) :
        IF blank \/ (r.kind = "ok" /\ r.n = 0)
        THEN /\ BackToMenu
             /\ UNCHANGED <<max_choice, caller, sel, report>>
        ELSE IF r.kind = "raise"
        THEN /\ BackToMenu
             /\ report' = failure
             /\ UNCHANGED <<max_choice, caller, sel>>
        ELSE /\ Choose(r.n, site)
             /\ UNCHANGED report
    /\ UNCHANGED <<chosen, answer, checked, downloads, menu_choice>>
    /\ UNCHANGED <<outcome, albVars, lyrVars, songVars, runVars>>

\* handle_lyrics_search, lines 452-465
HandleLyricsSearch == HandleSearch("h_lyrics", "lyrics", MaxResults, "Search failed")

\* handle_title_search, lines 480-493: search_by_title returns at most one entry
HandleTitleSearch == HandleSearch("h_title", "title", 1, "Search failed")

\* handle_artist_search, lines 611-629 and 706-708
HandleArtistSearch ==
    /\ pc = "h_artist"
    /\ \E blank \in BOOLEAN : \E r \in SearchOutcomes(MaxLimit) :
        IF blank
        THEN /\ BackToMenu
             /\ UNCHANGED <<max_choice, caller, sel, report>>
        ELSE IF r.kind = "raise"
        THEN /\ BackToMenu
             /\ report' = "Artist search failed"
             /\ UNCHANGED <<max_choice, caller, sel>>
        ELSE IF r.n > 0
        THEN /\ Choose(r.n, "album")
             /\ UNCHANGED report
        ELSE /\ pc' = "else_branch"
             /\ UNCHANGED <<max_choice, caller, sel, report>>
    /\ UNCHANGED <<chosen, answer, checked, downloads, menu_choice>>
    /\ UNCHANGED <<outcome, albVars, lyrVars, songVars, runVars>>

\* lines 709-733: the artist's songs are fetched and grouped by album
GroupByAlbum ==
    /\ pc = "else_branch"
    /\ \E r \in SearchOutcomes(MaxTracks) :
        IF r.kind = "raise"
        THEN /\ BackToMenu
             /\ report' = "Failed to fetch artist songs"
             /\ UNCHANGED <<max_choice, caller, sel>>
        ELSE \* len(keys) is 0 when no song was found
             /\ Choose(r.n, "group")
             /\ UNCHANGED report
    /\ UNCHANGED <<chosen, answer, checked, downloads, menu_choice>>
    /\ UNCHANGED <<outcome, albVars, lyrVars, songVars, runVars>>

\* one turn of the loop of choose_from_list (lines 405-416) and the
\* `if sel is None: return` of its caller
ChooseFromList ==
    /\ pc = "choose"
    /\ \E tok \in ChoiceInputs :
        IF ~IsDigit(tok)
        THEN \* "Enter a number."
             UNCHANGED <<pc, sel, chosen, downloads, report>>
        ELSE IF ~IntOf(tok).ok
        THEN \* ValueError leaves choose_from_list, the handler and main
             /\ pc' = "crashed"
             /\ report' = "ValueError"
             /\ UNCHANGED <<sel, chosen, downloads>>
        ELSE LET idx == IntOf(tok).val
             IN  IF idx = 0
                 THEN /\ sel' = <<>>
                      /\ BackToMenu
                      /\ UNCHANGED <<chosen, downloads, report>>
                 ELSE IF 1 <= idx /\ idx <= max_choice
                 THEN /\ sel' = <<idx - 1>>
                      /\ pc' = AfterChoice(caller)
                      /\ chosen' = (caller \in SongSites)
                      /\ downloads' = <<>>
                      /\ UNCHANGED report
                 ELSE \* "Out of range."
                      UNCHANGED <<pc, sel, chosen, downloads, report>>
    /\ UNCHANGED <<max_choice, caller, answer, checked, menu_choice>>
    /\ UNCHANGED <<outcome, albVars, lyrVars, songVars, runVars>>

\* lines 630-689: the cascade gave the songs of the chosen album, or none
ListAlbumSongs ==
    /\ pc = "cascade"
    /\ \E n \in 0..MaxTracks :
        IF n = 0
        THEN /\ BackToMenu
             /\ UNCHANGED <<max_choice, caller, sel>>
        ELSE Choose(n, "album_song")
    /\ UNCHANGED <<chosen, answer, checked, downloads, report, menu_choice>>
    /\ UNCHANGED <<outcome, albVars, lyrVars, songVars, runVars>>

\* lines 737-743: the songs of the chosen group (a group holds a song)
ListGroupSongs ==
    /\ pc = "group_songs"
    /\ \E n \in 1..MaxTracks : Choose(n, "group_song")
    /\ UNCHANGED <<chosen, answer, checked, downloads, report, menu_choice>>
    /\ UNCHANGED <<outcome, albVars, lyrVars, songVars, runVars>>

\* fetch_lyrics_for_result in its try (lines 470-476, 498-503, 695-704,
\* 749-758): the handlers of the two searches return on a failure, the
\* artist handler goes on to post_lyrics_actions
FetchLyrics ==
    /\ pc = "fetch_lyrics"
    /\ \E ok \in BOOLEAN :
        IF ok
        THEN /\ pc' = "post_lyrics"
             /\ UNCHANGED report
        ELSE /\ report' = "Error fetching lyrics"
             /\ pc' = IF caller \in {"lyrics", "title"} THEN "menu" ELSE "post_lyrics"
    /\ UNCHANGED <<max_choice, caller, sel, chosen, answer, checked, downloads,
                   menu_choice>>
    /\ UNCHANGED <<outcome, albVars, lyrVars, songVars, runVars>>

\* one turn of the loop of post_lyrics_actions up to the format prompt
\* (lines 429-435, 447-449)
PostLyricsActions ==
    /\ pc = "post_lyrics"
    /\ \E typed \in YesNoInputs :
        LET y == Lower(Strip(typed))
        IN  /\ answer' = y
            /\ IF y \in {<<"y">>, <<"y", "e", "s">>}
               THEN \E present \in BOOLEAN :
                        /\ checked' = IF present THEN "ok" ELSE "missing"
                        /\ IF present
                           THEN /\ pc' = "ask_format"
                                /\ UNCHANGED report
                           ELSE /\ BackToMenu
                                /\ report' = "yt-dlp is not installed"
               ELSE IF y \in {<<"n">>, <<"n", "o">>, <<>>}
               THEN /\ BackToMenu
                    /\ UNCHANGED <<checked, report>>
               ELSE \* "Answer 'y' or 'n'."
                    UNCHANGED <<pc, checked, report>>
    /\ UNCHANGED <<max_choice, caller, sel, chosen, downloads, menu_choice>>
    /\ UNCHANGED <<outcome, albVars, lyrVars, songVars, runVars>>

\* lines 436-446: the format is asked for and the downloader invoked
DownloadAudio ==
    /\ pc = "ask_format"
    /\ \E typed \in FormatInputs : \E ok \in BOOLEAN :
        /\ downloads' = Append(downloads, ChosenFormat(typed))
        /\ report' = IF ok THEN report ELSE "Download failed"
    /\ BackToMenu
    /\ UNCHANGED <<max_choice, caller, sel, chosen, answer, checked, menu_choice>>
    /\ UNCHANGED <<outcome, albVars, lyrVars, songVars, runVars>>

\* main() has obtained the client and shows the menu
InitMain ==
    /\ pc = "menu"
    /\ outcome = "none"
    /\ AlbIdle
    /\ artist_meta = [kind |-> "none", id |-> "None", url |-> ""]
    /\ has_artist_albums = FALSE
    /\ artist_name = "ab"
    /\ max_albums_fetch = 0
    /\ LyrIdle
    /\ artist_filter = <<>>
    /\ max_results = 0
    /\ title_arg = <<>>
    /\ artist_arg = <<>>
    /\ SongIdle
    /\ UiIdle
    /\ RunIdle

NextMain ==
    \/ MainMenu
    \/ HandleLyricsSearch
    \/ HandleTitleSearch
    \/ HandleArtistSearch
    \/ GroupByAlbum
    \/ ChooseFromList
    \/ ListAlbumSongs
    \/ ListGroupSongs
    \/ FetchLyrics
    \/ PostLyricsActions
    \/ DownloadAudio

SpecMain == InitMain /\ [][NextMain]_vars

(***************************************************************************)
(* Claims about search_by_lyrics and search_by_title                       *)
(***************************************************************************)
\* search_by_lyrics has returned its list
LyricsReturned == outcome = "returned" /\ resp.kind = "ok"

RECURSIVE Distinct(_, _)
\* s without the elements that repeat an earlier one (acc holds the kept ones)
Distinct(s, acc) ==
    IF s = <<>> THEN acc
    ELSE Distinct(Tail(s), IF Head(s) \in Range(acc) THEN acc ELSE Append(acc, Head(s)))

Take(s, n) == SubSeq(s, 1, IF n < Len(s) THEN n ELSE Len(s))

RECURSIVE EntriesOf(_)
EntriesOf(hits) ==
    IF hits = <<>> THEN <<>> ELSE <<Entry(Head(hits))>> \o EntriesOf(Tail(hits))

\* the hits that carry title, artist and url and whose artist equals the
\* filter, both stripped and lower-cased (every valid hit when no filter)
Eligible(hits, filter) ==
    SelectSeq(hits, LAMBDA h : HitValid(h) /\
                 (filter = <<>> \/ Lower(Strip(filter)) = Lower(Strip(h.artist))))

\* C6: for every answer and every max_results >= 0 the list returned by
\* search_by_lyrics has at most max_results entries.
C6_AtMostMaxResults == LyricsReturned => Len(results) <= max_results

\* C7: search_by_lyrics returns, in API order, exactly the first max_results
\* distinct candidates of the hits that carry title, artist and url and pass
\* the artist filter.
C7_FirstMaxDistinct ==
    LyricsReturned =>
        results = Take(Distinct(EntriesOf(Eligible(Flatten(resp.sections), artist_filter)),
                                <<>>),
                       max_results)

\* C8: the list returned by search_by_lyrics never holds two entries with
\* the same url.
C8_NoDuplicateUrl ==
    LyricsReturned =>
        \A i, j \in 1..Len(results) : i # j => results[i].url # results[j].url

\* With a filter given: every returned entry comes from a valid hit that
\* Match accepts, and, unless the list was cut at max_results, every valid
\* hit that Match accepts has its entry in the list.
KeepsExactly(Match(_, _)) ==
    (LyricsReturned /\ artist_filter # <<>>) =>
        LET hits == Flatten(resp.sections)
        IN  /\ \A i \in 1..Len(results) :
                  \E k \in 1..Len(hits) :
                      /\ HitValid(hits[k])
                      /\ Entry(hits[k]) = results[i]
                      /\ Match(artist_filter, hits[k].artist)
            /\ Len(results) < max_results =>
                  \A k \in 1..Len(hits) :
                      (HitValid(hits[k]) /\ Match(artist_filter, hits[k].artist))
                          => Entry(hits[k]) \in Range(results)

EqualIgnoringCase(f, a) == Lower(f) = Lower(a)

EqualIgnoringCaseAndBlanks(f, a) == Lower(Strip(f)) = Lower(Strip(a))

\* C9 as claimed: with an artist filter given, a valid hit is kept if and
\* only if the filter equals the hit's primary artist name ignoring letter
\* case.
C9_FilterIgnoringCase == KeepsExactly(EqualIgnoringCase)

\* C9 as amended: with an artist filter given, a valid hit is kept if and
\* only if the filter equals the hit's primary artist name ignoring letter
\* case and leading and trailing blanks (no fuzzy or substring match).
C9_FilterIgnoringCaseAndBlanks == KeepsExactly(EqualIgnoringCaseAndBlanks)

\* filter "a": the hit of artist " A" is kept, the hit of artist "b" dropped
C9_Witness ==
    /\ LyricsReturned
    /\ artist_filter = <<"a">>
    /\ Len(results) < max_results
    /\ \E i \in 1..Len(results) : results[i].url = <<"y">>
    /\ \E k \in 1..Len(Flatten(resp.sections)) :
          /\ Flatten(resp.sections)[k].artist = <<"b">>
          /\ Entry(Flatten(resp.sections)[k]) \notin Range(results)
    /\ \E k \in 1..Len(Flatten(resp.sections)) :
          Flatten(resp.sections)[k].artist = <<" ", "A">>

\* C10: when search_lyrics or search_song raises, the function raises one
\* RuntimeError to its caller, returns no list, and has issued the search
\* call exactly once.
C10_SingleErrorNoRetry ==
    /\ calls <= 1
    /\ resp.kind = "raise" =>
          /\ pc = "raised"
          /\ outcome = "raised"
          /\ error \in {"RuntimeError: Genius search_lyrics failed",
                        "RuntimeError: Genius search_song failed"}
          /\ results = <<>>
          /\ calls = 1
    /\ outcome = "returned" => error = ""

C10_Witness ==
    /\ resp.kind = "raise"
    /\ pc = "raised"
    /\ error = "RuntimeError: Genius search_song failed"
    /\ calls = 1

(***************************************************************************)
(* Claims about the album-to-songs cascade and the names of the results    *)
(***************************************************************************)
Attempted(name) == name \in Range(song_log)

ReturnedEmpty(k) == stage_ret[k].state = "returned" /\ stage_ret[k].val = <<>>

\* stage k ran to its end without songs: it returned [] or it failed
GaveNothing(k) == stage_ret[k].state # "none" /\ stage_ret[k].val = <<>>

\* C2 as stated: once the cascade is over, the scrape of the album page was
\* attempted iff fetch_album_songs returned an empty list, and the artist's
\* songs were asked for iff both earlier stages returned an empty list.
C2_StageIffEarlierEmpty ==
    pc = "songs_done" =>
        /\ Attempted("fetch_album_songs")
        /\ Attempted("scrape_album_page") <=> ReturnedEmpty(1)
        /\ Attempted("artist_songs_filter") <=> (ReturnedEmpty(1) /\ ReturnedEmpty(2))

\* C2 amended: from the return of fetch_album_songs on, the scrape of the
\* album page is attempted iff fetch_album_songs returned an empty list and the
\* album has a url, and the artist's songs are asked for iff fetch_album_songs
\* returned an empty list and the scrape was skipped or ended without songs;
\* a non-empty result of a stage ends the cascade with that result.
C2_StageIffNothingYetAndUrl ==
    stage_ret[1].state # "none" =>
        /\ Attempted("fetch_album_songs")
        /\ Attempted("scrape_album_page") <=> (ReturnedEmpty(1) /\ album.url # "")
        /\ Attempted("artist_songs_filter") <=>
               (ReturnedEmpty(1) /\ (~Attempted("scrape_album_page") \/ GaveNothing(2)))
        /\ \A k \in 1..3 :
               stage_ret[k].val # <<>> => (pc = "songs_done" /\ songs = stage_ret[k].val)

\* the album endpoints gave nothing, the album has no url: the scrape was
\* skipped and the artist's songs, filtered by album name, gave the songs
C2_Witness ==
    /\ pc = "songs_done"
    /\ song_log = <<"fetch_album_songs", "artist_songs_filter">>
    /\ album.url = ""
    /\ ReturnedEmpty(1)
    /\ songs # <<>>

\* the title of a song, the name of an album
NameOf(rec) == IF "title" \in DOMAIN rec THEN rec.title ELSE rec.name

AllNamed(list) == \A i \in 1..Len(list) : NameOf(list[i]) # <<>>

\* C5: every entry of every list a resolver returned (albums from the API and
\* from the scrape, the result of a title search, the songs of each stage of
\* the cascade and of fetch_artist_songs) has a non-empty title or name.
C5_NonEmptyDisplayName ==
    /\ AllNamed(api_ret.val)
    /\ AllNamed(scrape_ret.val)
    /\ AllNamed(results)
    /\ AllNamed(all_songs)
    /\ \A k \in 1..3 : AllNamed(stage_ret[k].val)

(***************************************************************************)
(* Claims about the paginated resolvers                                    *)
(***************************************************************************)
\* fetch_artist_songs went through its paging loop (artist_songs exists)
SongsPaged == "search_artist" \notin Range(endpoint_log)

\* C11 (state part): the list a paging loop holds or returns never has more
\* than `limit` entries.
C11_WithinLimit ==
    /\ Len(albums) <= max_albums_fetch \/ scrape_ret.state = "returned"
    /\ Len(api_ret.val) <= max_albums_fetch
    /\ SongsPaged => Len(all_songs) <= song_limit

AlbumsRequest == page_log' # page_log

SongsRequest == song_page_log' # song_page_log

\* the page just received is a page of fewer than per_page items
ShortPage(r) == r.kind = "page" /\ Len(r.items) < per_page

\* C12: when a page has fewer items than the page size, the resolver returns
\* without a further request, and what it returns is what it had accumulated
\* followed by one candidate for every item of that page, in order.
C12_ShortPageKeepsAll ==
    /\ [][(AlbumsRequest /\ ShortPage(last_page')) =>
            /\ api_ret'.state = "returned"
            /\ api_ret'.val = albums \o [i \in 1..Len(last_page'.items) |->
                                            NormAlbum(last_page'.items[i])]]_vars
    /\ [][(SongsRequest /\ ShortPage(song_last_page')) =>
            /\ pc' = "songs_done"
            /\ all_songs' = all_songs \o [i \in 1..Len(song_last_page'.items) |->
                                             ArtistSongOf(song_last_page'.items[i])]]_vars
    /\ [][api_ret.state # "none" => ~AlbumsRequest]_vars
    /\ [][pc = "songs_done" => ~SongsRequest]_vars

Consecutive(lg) == \A i \in 1..Len(lg) : lg[i] = i

\* C14: within one call of fetch_artist_albums and of fetch_artist_songs the
\* page numbers requested are 1, 2, 3, ... in this order: none twice, none
\* skipped.
C14_ConsecutivePages == Consecutive(page_log) /\ Consecutive(song_page_log)

\* three pages were requested by fetch_artist_albums before it returned
C14_Witness ==
    /\ pc = "done"
    /\ api_ret.state = "returned"
    /\ page_log = <<1, 2, 3>>

(***************************************************************************)
(* Claims about missing capabilities and about the scrape                  *)
(***************************************************************************)
Called(e) == e \in Range(endpoint_log)

\* fetch_album_songs has returned
AlbumSongsDone == stage_ret[1].state # "none"

\* fetch_artist_songs was called and is over
ArtistSongsDone ==
    pc = "songs_done" /\ Attempted("artist_songs_filter") /\ HandlerArtistId(artist_meta) # "None"

\* C15 as stated: a resolver whose capability the client lacks returns an
\* empty list, raises nothing, calls no other upstream capability, and the
\* next stage is attempted.
C15_AbsentMeansEmpty ==
    /\ (~has_artist_albums /\ api_ret.state # "none") =>
           /\ api_ret = [state |-> "returned", val |-> <<>>]
           /\ page_log = <<>>
           /\ "scrape_artist_albums_from_url" \in Range(log)
    /\ (AlbumSongsDone /\ (~has_album \/ ~has_album_songs)) =>
           /\ stage_ret[1] = [state |-> "returned", val |-> <<>>]
           /\ ~Called("album") /\ ~Called("album_songs")
           /\ Len(song_log) >= 2
    /\ (ArtistSongsDone /\ ~has_artist_songs) =>
           /\ stage_ret[3].state = "returned"
           /\ all_songs = <<>>
           /\ song_page_log = <<>>
           /\ ~Called("search_artist")

\* C15 amended: a missing capability is never an error and is never called.
\* Without artist_albums, fetch_artist_albums returns [] with no upstream call
\* and the scrape follows iff an artist url can be had.  fetch_album_songs
\* calls only the album endpoints the client has, and without both returns []
\* with no upstream call, after which the next stage is attempted.  Without
\* artist_songs, fetch_artist_songs requests no page and asks search_artist
\* for the artist with songs instead, whose songs it returns.
C15_AbsentIsNoError ==
    /\ (~has_artist_albums /\ api_ret.state # "none") =>
           /\ api_ret = [state |-> "returned", val |-> <<>>]
           /\ page_log = <<>>
           /\ "scrape_artist_albums_from_url" \in Range(log)
                  <=> ArtistUrl(artist_meta, artist_name) # ""
    /\ AlbumSongsDone =>
           /\ stage_ret[1].state = "returned"
           /\ Called("album") => has_album
           /\ Called("album_songs") => has_album_songs
           /\ (~has_album /\ ~has_album_songs) =>
                  (stage_ret[1].val = <<>> /\ Len(song_log) >= 2)
    /\ (ArtistSongsDone /\ ~has_artist_songs) =>
           /\ stage_ret[3] = [state |-> "returned",
                              val |-> FilterByAlbum(all_songs, album.name)]
           /\ song_page_log = <<>>
           /\ Called("search_artist")

\* a client without album, album_songs and artist_songs: no album endpoint
\* was called, and search_artist gave the songs of the album
C15_Witness ==
    /\ pc = "songs_done"
    /\ ~has_album /\ ~has_album_songs /\ ~has_artist_songs
    /\ HandlerArtistId(artist_meta) # "None"
    /\ endpoint_log = <<"search_artist">>
    /\ song_page_log = <<>>
    /\ songs # <<>>

\* scrape_artist_albums_from_url is running (for the albums, or on the album
\* page for the songs)
Scraping == pc \in {"scrape", "song_scrape"}

\* C16: the scrape fetches candidate_urls[1], [2], [3] in this order, starting
\* with the first; a variant is fetched only while nothing has been found, so
\* the scrape ends with the first variant that yields candidates and its
\* result comes from that variant alone.
C16_FirstYieldingVariant ==
    /\ [](Scraping => (found_albums = <<>> /\ variant \in 1..NumVariants))
    /\ [][(~Scraping /\ Scraping') => variant' = 1]_vars
    /\ [][Scraping =>
            \/ variant' = variant /\ ~Scraping'
            \/ variant' = variant + 1 /\ Scraping' /\ found_albums' = <<>>]_vars

\* the first variant gave nothing, the second gave albums, the third was
\* not fetched
C16_Witness ==
    /\ pc = "done"
    /\ variant = 2
    /\ scrape_ret.state = "returned"
    /\ scrape_ret.val # <<>>
    /\ albums = scrape_ret.val

\* C17: scrape_artist_albums_from_url never raises: a variant whose fetch or
\* parse fails is skipped, and the scrape returns a list to either caller.
C17_FailedVariantSkipped ==
    /\ scrape_ret.state # "raised"
    /\ stage_ret[2].state # "raised"

\* C18: when the scrape returns a non-empty list (the API listing gave
\* nothing), the list search_artist_and_list_albums returns is that list.
C18_ScrapedListReturned ==
    (scrape_ret.state = "returned" /\ scrape_ret.val # <<>>) =>
        /\ api_ret.val = <<>>
        /\ pc = "done"
        /\ outcome = "returned"
        /\ albums = scrape_ret.val

\* fetch_artist_albums returned [] and the scrape two albums or more
C18_Witness ==
    /\ pc = "done"
    /\ api_ret = [state |-> "returned", val |-> <<>>]
    /\ scrape_ret.state = "returned"
    /\ Len(scrape_ret.val) >= 2
    /\ albums = scrape_ret.val

\* search_artist returned an artist
LookupSucceeded == artist_meta.kind \in {"dict", "obj"}

\* C19: once the lookup has returned an artist, search_artist_and_list_albums
\* raises nothing; when neither the API listing nor the scrape gave an album
\* (empty or failed) it returns an empty list.
C19_NothingFoundIsNoError ==
    /\ LookupSucceeded => (outcome # "raised" /\ pc # "raised")
    /\ (LookupSucceeded /\ Finished /\ api_ret.val = <<>> /\ scrape_ret.val = <<>>)
           => (outcome = "returned" /\ albums = <<>>)

\* the API listing failed on a malformed page and the scrape raised: the
\* function returned an empty list
C19_Witness ==
    /\ pc = "done"
    /\ LookupSucceeded
    /\ api_ret.state = "raised"
    /\ scrape_ret.state = "raised"
    /\ outcome = "returned"
    /\ albums = <<>>

\* C20: when search_artist raises or finds no artist, the function ends with
\* an error, and neither fetch_artist_albums nor the scrape was invoked.
C20_FailedLookupIsError ==
    (artist_meta.kind \in {"raise", "none"} /\ log # <<>>) =>
        /\ outcome = "raised"
        /\ log = <<"search_artist">>
        /\ api_ret = NoRet /\ scrape_ret = NoRet /\ page_log = <<>>

(***************************************************************************)
(* Failure containment and shape of the resolvers' results                 *)
(***************************************************************************)
\* fetch_artist_songs was on a page when the handler's except (line 674) ran
SongsEscaped == stage_ret[3].state = "raised" /\ song_page_log # <<>>

\* C21: no failure of a single upstream request or of the processing of its
\* answer escapes fetch_artist_albums, fetch_artist_songs or
\* scrape_artist_albums_from_url (fetch_album_songs keeps both of its calls
\* and their loops inside a try): each of them returns a list to its caller.
C21_ResolversNeverRaise ==
    /\ api_ret.state # "raised"
    /\ ~SongsEscaped
    /\ scrape_ret.state # "raised"
    /\ stage_ret[2].state # "raised"

\* C22: a hit of search_lyrics that has a title and a url yields a candidate
\* of search_by_lyrics even when its artist is missing (no filter given, the
\* list not cut at max_results).
C22_TitleAndUrlSuffice ==
    (LyricsReturned /\ artist_filter = <<>> /\ Len(results) < max_results) =>
        \A h \in Range(Flatten(resp.sections)) :
            (h.title # <<>> /\ h.url # <<>>) =>
                \E i \in 1..Len(results) :
                    results[i].title = Strip(h.title) /\ results[i].url = Strip(h.url)

\* {"title", "artist", "url"} with a title and a url
IsSongCandidate(rec) ==
    /\ DOMAIN rec = {"title", "artist", "url"}
    /\ rec.title # <<>>
    /\ rec.url # <<>>

\* C23: every entry of the song list presented for the chosen album (line
\* 683) is a song candidate with a non-empty title and url; no album-shaped
\* or partial record is among them.
C23_OnlySongCandidates ==
    pc = "songs_done" => \A i \in 1..Len(songs) : IsSongCandidate(songs[i])

\* C26: each paging loop issues at most ceil(limit / per_page) page requests,
\* whatever the upstream answers.
C26_AtMostCeilPages ==
    /\ Len(page_log) * per_page < max_albums_fetch + per_page
    /\ Len(song_page_log) * per_page < song_limit + per_page

\* C27: fetch_album_songs calls album first when the client has it, and calls
\* album_songs exactly when album gave no songs: here, whenever the client
\* has album_songs and the function returned an empty list, album_songs was
\* called, and album_songs never precedes album.
C27_AlbumSongsIffNoSongs ==
    AlbumSongsDone =>
        /\ has_album <=> Called("album")
        /\ Called("album_songs") => has_album_songs
        /\ (has_album_songs /\ stage_ret[1].val = <<>>) => Called("album_songs")
        /\ \A i, j \in 1..Len(endpoint_log) :
               (endpoint_log[i] = "album_songs" /\ endpoint_log[j] = "album") => j < i

(***************************************************************************)
(* Claims about handle_artist_search                                       *)
(***************************************************************************)
\* the artist's whole song list has been fetched
FetchedUpFront == Range(log) \cap SongFetches # {}

IndexInBounds == sel # <<>> => (0 <= sel[1] /\ sel[1] < max_choice)

\* C28: whatever the user types, choose_from_list neither raises nor returns
\* anything but None or an index i with 0 <= i < max_choice, so that every
\* list access by a returned index is within bounds.
C28_NoneOrIndexInBounds ==
    /\ pc # "crashed"
    /\ IndexInBounds

\* C29: the downloader is invoked only after a candidate was selected, the
\* user answered y or yes and the yt-dlp check succeeded; at most once per
\* selection; and always with one of mp3, m4a, webm, aac, wav, flac.
C29_DownloadOnlyWhenConfirmed ==
    /\ Len(downloads) <= 1
    /\ downloads # <<>> =>
           /\ chosen
           /\ sel # <<>>
           /\ answer \in {<<"y">>, <<"y", "e", "s">>}
           /\ checked = "ok"
           /\ downloads[1] \in AudioFormats

\* a song of an album was selected, the download was asked for with a format
\* other than the default and failed
C29_Witness ==
    /\ pc = "menu"
    /\ caller = "album_song"
    /\ chosen
    /\ answer = <<"y", "e", "s">>
    /\ downloads = << <<"w", "a", "v">> >>
    /\ report = "Download failed"

\* the failures of the client that a handler reports
ClientFailures ==
    {"Search failed", "Artist search failed", "Failed to fetch artist songs",
     "Error fetching lyrics", "Download failed"}

\* C30: the loop of main ends only when the user enters 0, and a failure of
\* a search, a lyrics fetch or a download never ends it: it is reported and
\* the dialogue goes on.
C30_LoopEndsOnlyOnZero ==
    /\ pc \in {"exited", "crashed"} => (pc = "exited" /\ menu_choice = "0")
    /\ report \in ClientFailures => pc \notin {"exited", "crashed"}

(***************************************************************************)
(* Claims about repeated calls                                             *)
(***************************************************************************)
\* C24: search_by_lyrics and search_artist_and_list_albums are idempotent:
\* called again with the same arguments against an upstream that answers
\* every request identically, they return (or raise) what the first call did.
C24_SecondCallSameResult ==
    (run = 2 /\ pc \in {"done", "raised"}) => Result = first

\* a second album search that asked the API and scraped, and returned albums
C24_Witness ==
    /\ run = 2
    /\ pc = "done"
    /\ log = <<"search_artist", "fetch_artist_albums", "scrape_artist_albums_from_url">>
    /\ page_log # <<>>
    /\ albums # <<>>
    /\ Result = first

\* a second lyrics search that returned two entries or more
C24_LyricsWitness ==
    /\ run = 2
    /\ pc = "done"
    /\ calls = 1
    /\ Len(results) >= 2
    /\ Result = first

====
